---- MODULE Spec2Model ----
(***************************************************************************)
(* Model of the Kafka ACL custom resource (ews_kafka_acl/custom_resource). *)
(* One CloudFormation resource is followed through its lifecycle: the      *)
(* provider is invoked with a Create, Update or Delete request, builds the *)
(* cluster info, and calls delete_acls / create_new_acls, which act on the *)
(* ACL set of the cluster.                                                 *)
(*                                                                         *)
(* A policy is a record [Action, Host].  Action stands for the tuple of    *)
(* the required fields (Resource, Principal, ResourceType, Action, Effect, *)
(* with PatternType given explicitly); Host is the optional field, and     *)
(* Absent marks a policy whose Host key is missing.  A list of policies is *)
(* modelled as the set of its elements.                                    *)
(***************************************************************************)
EXTENDS Naturals, FiniteSets, Sequences

VARIABLES
    stage,                \* lifecycle of the resource: "absent", "present", "deleted"
    declared,             \* ResourceProperties.Policies of the last successful request (raw)
    cluster,              \* ACLs bound on the Kafka cluster
    invocations,          \* number of requests handled so far
    pc,                   \* position inside the current invocation
    request_type,         \* RequestType of the current request
    new_raw,              \* ResourceProperties.Policies of the current request, as sent
    policies,             \* self.get("Policies"): the same, after schema validation
    old_policies,         \* self.get_old("Policies"), as update() holds it
    cluster_info,         \* self.cluster_info
    acls,                 \* result of differentiate_old_new_acls: <<to create, to delete>>
    status,               \* response Status: "NONE" until success()/fail() is called
    physical_resource_id, \* self.physical_resource_id
    calls,                \* calls made to acls_management in this invocation, in order
    allOk                 \* history: every acls_management call so far succeeded

vars == <<stage, declared, cluster, invocations, pc, request_type, new_raw, policies,
          old_policies, cluster_info, acls, status, physical_resource_id, calls, allOk>>

(* ------------------------------ bounds --------------------------------- *)
MaxPolicies == 2
MaxInvocations == 3

(* ------------------------------ values --------------------------------- *)
Absent == "absent"
Actions == {"READ", "WRITE"}
Hosts == {"*", "10.0.0.1"}
RawPolicies == [Action : Actions, Host : Hosts \cup {Absent}]
PolicyLists == {P \in SUBSET RawPolicies : Cardinality(P) <= MaxPolicies}
CredentialKeys == {"sasl_plain_username", "sasl_plain_password"}

(* "Host": {"type": "string", "default": "*"} *)
HostDefault == "*"

(* The request schema is applied to ResourceProperties before the handler  *)
(* runs; a property that is missing and has a "default" receives it.       *)
SchemaDefaults(policy) ==
    IF policy.Host = Absent THEN [policy EXCEPT !.Host = HostDefault] ELSE policy

(* Mutant: the old policies keep a missing Host.                           *)
OldHostDefault_skipped(policy) == policy

(* update(): for policy in old_policies: if not keyisset("Host", policy):  *)
(*               policy.update({"Host": "*"})                              *)
OldHostDefault(policy) ==
    IF policy.Host = Absent THEN [policy EXCEPT !.Host = "*"] ELSE policy

(* common.differentiate_old_new_acls(new_policies, old_policies):          *)
(* <<new - old, old - new>> over the records it is given.                  *)
differentiate_old_new_acls(new_list, old_list) ==
    <<new_list \ old_list, old_list \ new_list>>

(* The ACL binding the admin client sends for a policy: host "*" when the  *)
(* policy carries none.                                                    *)
ACL(policy) ==
    [Action |-> policy.Action,
     Host |-> IF policy.Host = Absent THEN "*" ELSE policy.Host]

ACLs(list) == {ACL(p) : p \in list}

(* Outcomes of one call of create_new_acls / delete_acls on `list`:        *)
(* "ok" applies every binding; "connection" raises before anything is      *)
(* sent; "partial" raises after a strict subset was applied.               *)
AdminOutcomes(list) ==
    {[result |-> "ok", applied |-> ACLs(list)],
     [result |-> "connection", applied |-> {}]}
    \cup {[result |-> "partial", applied |-> S] : S \in (SUBSET ACLs(list)) \ {ACLs(list)}}

create_new_acls(list, out) == cluster \cup out.applied
delete_acls(list, out) == cluster \ out.applied

Call(op, list, out) ==
    [op |-> op, arg |-> list, result |-> out.result, applied |-> out.applied]

(* ------------------------------- Init ---------------------------------- *)
Init ==
    /\ stage = "absent"
    /\ declared = {}
    /\ cluster = {}
    /\ invocations = 0
    /\ pc = "idle"
    /\ request_type = "None"
    /\ new_raw = {}
    /\ policies = {}
    /\ old_policies = {}
    /\ cluster_info = [k \in CredentialKeys |-> "unset"]
    /\ acls = <<{}, {}>>
    /\ status = "NONE"
    /\ physical_resource_id = "none"
    /\ calls = <<>>
    /\ allOk = TRUE

(* ------------------------------ actions -------------------------------- *)

(* lambda_handler: provider.handle(event, context) receives a request.     *)
(* Create carries the new properties; Update the old and the new ones;     *)
(* Delete the properties of the resource being deleted.                    *)
lambda_handler ==
    /\ pc = "idle"
    /\ invocations < MaxInvocations
    /\ \E type \in {"Create", "Update", "Delete"}, new \in PolicyLists :
          /\ type = "Create" => stage = "absent"
          /\ type \in {"Update", "Delete"} => stage = "present"
          /\ type = "Delete" => new = declared
          /\ request_type' = type
          /\ new_raw' = new
          /\ policies' = {SchemaDefaults(p) : p \in new}
          /\ old_policies' = IF type = "Update" THEN declared ELSE {}
    /\ invocations' = invocations + 1
    /\ pc' = "define_cluster_info"
    /\ UNCHANGED <<stage, declared, cluster, cluster_info, acls, status,
                   physical_resource_id, calls, allOk>>

(* define_cluster_info: copies the properties (each credential is a        *)
(* literal or holds a resolve:secretsmanager marker), then resolves every  *)
(* value holding a marker; a failed resolution calls self.fail() and the   *)
(* loop, and the handler, go on with the marker left in place.             *)
define_cluster_info ==
    /\ pc = "define_cluster_info"
    /\ \E credentials \in [CredentialKeys -> {"literal", "secret"}] :
       \E failing \in SUBSET {k \in CredentialKeys : credentials[k] = "secret"} :
          /\ cluster_info' = [k \in CredentialKeys |->
                                 IF credentials[k] = "literal" THEN "literal"
                                 ELSE IF k \in failing THEN "unresolved" ELSE "resolved"]
          /\ status' = IF failing # {} THEN "FAILED" ELSE status
    /\ pc' = CASE request_type = "Create" -> "create"
               [] request_type = "Update" -> "differentiate"
               [] OTHER -> "delete"
    /\ UNCHANGED <<stage, declared, cluster, invocations, request_type, new_raw, policies,
                   old_policies, acls, physical_resource_id, calls, allOk>>

(* create(): create_new_acls(self.get("Policies"), self.cluster_info)      *)
create ==
    /\ pc = "create"
    /\ \E out \in AdminOutcomes(policies) :
          /\ cluster' = create_new_acls(policies, out)
          /\ calls' = Append(calls, Call("create_new_acls", policies, out))
          /\ allOk' = (allOk /\ out.result = "ok")
          /\ IF out.result = "ok"
             THEN /\ physical_resource_id' = "uuid"
                  /\ status' = "SUCCESS"
             ELSE /\ physical_resource_id' = "could-not-create"
                  /\ status' = "FAILED"
    /\ pc' = "done"
    /\ UNCHANGED <<stage, declared, invocations, request_type, new_raw, policies,
                   old_policies, cluster_info, acls>>

(* Mutant: the arguments of differentiate_old_new_acls are swapped.        *)
update_differentiate_swapped ==
    /\ pc = "differentiate"
    /\ LET old == {OldHostDefault(p) : p \in old_policies}
       IN  /\ old_policies' = old
           /\ acls' = differentiate_old_new_acls(old, policies)
    /\ pc' = "delete_phase"
    /\ UNCHANGED <<stage, declared, cluster, invocations, request_type, new_raw, policies,
                   cluster_info, status, physical_resource_id, calls, allOk>>

(* update(), first part: default Host in the old policies, then diff.      *)
update_differentiate ==
    /\ pc = "differentiate"
    /\ LET old == {OldHostDefault(p) : p \in old_policies}
       IN  /\ old_policies' = old
           /\ acls' = differentiate_old_new_acls(policies, old)
    /\ pc' = "delete_phase"
    /\ UNCHANGED <<stage, declared, cluster, invocations, request_type, new_raw, policies,
                   cluster_info, status, physical_resource_id, calls, allOk>>

(* Mutant: a failed delete_acls is tried a second time.                    *)
update_delete_phase_retry ==
    /\ pc = "delete_phase"
    /\ \E out \in AdminOutcomes(acls[2]) :
          IF out.result = "ok"
          THEN /\ cluster' = delete_acls(acls[2], out)
               /\ calls' = Append(calls, Call("delete_acls", acls[2], out))
               /\ allOk' = allOk
          ELSE \E again \in AdminOutcomes(acls[2]) :
               /\ cluster' = (cluster \ out.applied) \ again.applied
               /\ calls' = calls \o <<Call("delete_acls", acls[2], out),
                                      Call("delete_acls", acls[2], again)>>
               /\ allOk' = FALSE
    /\ pc' = "create_phase"
    /\ UNCHANGED <<stage, declared, invocations, request_type, new_raw, policies,
                   old_policies, cluster_info, acls, status, physical_resource_id>>

(* Mutant: a failed delete_acls fails the request and ends the handler.    *)
update_delete_phase_fatal ==
    /\ pc = "delete_phase"
    /\ \E out \in AdminOutcomes(acls[2]) :
          /\ cluster' = delete_acls(acls[2], out)
          /\ calls' = Append(calls, Call("delete_acls", acls[2], out))
          /\ allOk' = (allOk /\ out.result = "ok")
          /\ status' = IF out.result = "ok" THEN status ELSE "FAILED"
          /\ pc' = IF out.result = "ok" THEN "create_phase" ELSE "done"
    /\ UNCHANGED <<stage, declared, invocations, request_type, new_raw, policies,
                   old_policies, cluster_info, acls, physical_resource_id>>

(* Mutant: only a connection error of delete_acls ends the handler.        *)
update_delete_phase_connection_fatal ==
    /\ pc = "delete_phase"
    /\ \E out \in AdminOutcomes(acls[2]) :
          /\ cluster' = delete_acls(acls[2], out)
          /\ calls' = Append(calls, Call("delete_acls", acls[2], out))
          /\ allOk' = (allOk /\ out.result = "ok")
          /\ status' = IF out.result = "connection" THEN "FAILED" ELSE status
          /\ pc' = IF out.result = "connection" THEN "done" ELSE "create_phase"
    /\ UNCHANGED <<stage, declared, invocations, request_type, new_raw, policies,
                   old_policies, cluster_info, acls, physical_resource_id>>

(* update(), delete phase: try: delete_acls(acls[1], ...) except: log.     *)
update_delete_phase ==
    /\ pc = "delete_phase"
    /\ \E out \in AdminOutcomes(acls[2]) :
          /\ cluster' = delete_acls(acls[2], out)
          /\ calls' = Append(calls, Call("delete_acls", acls[2], out))
          /\ allOk' = (allOk /\ out.result = "ok")
    /\ pc' = "create_phase"
    /\ UNCHANGED <<stage, declared, invocations, request_type, new_raw, policies,
                   old_policies, cluster_info, acls, status,
                   physical_resource_id>>

(* Mutant: a failed create phase re-creates what the delete phase removed. *)
update_create_phase_rollback ==
    /\ pc = "create_phase"
    /\ \E out \in AdminOutcomes(acls[1]) :
          /\ cluster' = IF out.result = "ok"
                        THEN create_new_acls(acls[1], out)
                        ELSE create_new_acls(acls[1], out) \cup calls[1].applied
          /\ calls' = Append(calls, Call("create_new_acls", acls[1], out))
          /\ allOk' = (allOk /\ out.result = "ok")
          /\ status' = IF out.result = "ok" THEN "SUCCESS" ELSE "FAILED"
    /\ pc' = "done"
    /\ UNCHANGED <<stage, declared, invocations, request_type, new_raw, policies,
                   old_policies, cluster_info, acls, physical_resource_id>>

(* Mutant: the create phase is given every new policy, not the difference. *)
update_create_phase_all_policies ==
    /\ pc = "create_phase"
    /\ \E out \in AdminOutcomes(policies) :
          /\ cluster' = create_new_acls(policies, out)
          /\ calls' = Append(calls, Call("create_new_acls", policies, out))
          /\ allOk' = (allOk /\ out.result = "ok")
          /\ status' = IF out.result = "ok" THEN "SUCCESS" ELSE "FAILED"
    /\ pc' = "done"
    /\ UNCHANGED <<stage, declared, invocations, request_type, new_raw, policies,
                   old_policies, cluster_info, acls, physical_resource_id>>

(* update(), create phase: create_new_acls(acls[0], ...); success() or,    *)
(* on any exception, fail().                                               *)
update_create_phase ==
    /\ pc = "create_phase"
    /\ \E out \in AdminOutcomes(acls[1]) :
          /\ cluster' = create_new_acls(acls[1], out)
          /\ calls' = Append(calls, Call("create_new_acls", acls[1], out))
          /\ allOk' = (allOk /\ out.result = "ok")
          /\ status' = IF out.result = "ok" THEN "SUCCESS" ELSE "FAILED"
    /\ pc' = "done"
    /\ UNCHANGED <<stage, declared, invocations, request_type, new_raw, policies,
                   old_policies, cluster_info, acls, physical_resource_id>>

(* delete(): delete_acls(self.get("Policies"), ...); success() or fail().  *)
delete ==
    /\ pc = "delete"
    /\ \E out \in AdminOutcomes(policies) :
          /\ cluster' = delete_acls(policies, out)
          /\ calls' = Append(calls, Call("delete_acls", policies, out))
          /\ allOk' = (allOk /\ out.result = "ok")
          /\ status' = IF out.result = "ok" THEN "SUCCESS" ELSE "FAILED"
    /\ pc' = "done"
    /\ UNCHANGED <<stage, declared, invocations, request_type, new_raw, policies,
                   old_policies, cluster_info, acls, physical_resource_id>>

(* The response is sent and the provider object is dropped; CloudFormation *)
(* records the new properties of the resource when the Status is SUCCESS   *)
(* and keeps the previous ones if not.                                     *)
send_response ==
    /\ pc = "done"
    /\ pc' = "idle"
    /\ IF status = "SUCCESS"
       THEN /\ stage' = IF request_type = "Delete" THEN "deleted" ELSE "present"
            /\ declared' = IF request_type = "Delete" THEN {} ELSE new_raw
       ELSE UNCHANGED <<stage, declared>>
    /\ request_type' = "None"
    /\ new_raw' = {}
    /\ policies' = {}
    /\ old_policies' = {}
    /\ cluster_info' = [k \in CredentialKeys |-> "unset"]
    /\ acls' = <<{}, {}>>
    /\ status' = "NONE"
    /\ calls' = <<>>
    /\ UNCHANGED <<cluster, invocations, physical_resource_id, allOk>>

Next ==
    \/ lambda_handler
    \/ define_cluster_info
    \/ create
    \/ update_differentiate
    \/ update_delete_phase
    \/ update_create_phase
    \/ delete
    \/ send_response

Spec == Init /\ [][Next]_vars

(* ----------------------------- properties ------------------------------ *)

(* The declared ACL set of a list of raw policies: Host "*" where missing. *)
Normalized(list) ==
    {[Action |-> p.Action, Host |-> IF p.Host = Absent THEN "*" ELSE p.Host] : p \in list}

Ops == [i \in 1..Len(calls) |-> calls[i].op]
InUpdate == request_type = "Update"
AfterDiff == pc \in {"delete_phase", "create_phase", "done"}
UpdateDone == request_type = "Update" /\ pc = "done"
SecretFailed == \E k \in CredentialKeys : cluster_info[k] = "unresolved"

(* C1: in every Update the delete phase (delete_acls over acls[1]) is      *)
(* attempted exactly once and strictly before the create phase             *)
(* (create_new_acls over acls[0]), itself attempted exactly once; no phase *)
(* is retried, whatever the outcome of either phase.                       *)
C1_PhasesOnceInOrder ==
    InUpdate =>
        /\ pc \in {"define_cluster_info", "differentiate", "delete_phase"} => Ops = <<>>
        /\ pc = "create_phase" => Ops = <<"delete_acls">> /\ calls[1].arg = acls[2]
        /\ pc = "done" => /\ Ops = <<"delete_acls", "create_new_acls">>
                          /\ calls[1].arg = acls[2]
                          /\ calls[2].arg = acls[1]

C1_Witness ==
    /\ UpdateDone
    /\ Len(calls) = 2
    /\ calls[1].result = "partial" /\ calls[2].result = "connection"
    /\ acls[1] # {} /\ acls[2] # {}

(* C2: in Update a failure of delete_acls is swallowed: the create phase   *)
(* is still executed and, if it succeeds, the result reported is SUCCESS.  *)
C2_DeleteFailureSwallowed ==
    (UpdateDone /\ Len(calls) >= 1 /\ calls[1].result # "ok") =>
        /\ Len(calls) = 2
        /\ calls[2].op = "create_new_acls"
        /\ calls[2].result = "ok" => status = "SUCCESS"

C2_Witness ==
    /\ UpdateDone
    /\ Len(calls) = 2
    /\ calls[1].result = "connection" /\ calls[1].arg # {}
    /\ calls[2].result = "ok" /\ calls[2].arg # {}
    /\ status = "SUCCESS"

(* C3: in Update a failure of create_new_acls is fatal: the result is      *)
(* FAILED, and what the delete phase removed stays removed (nothing of it  *)
(* is given to a create call or is back on the cluster).                   *)
C3_CreateFailureFatal ==
    (UpdateDone /\ Len(calls) = 2 /\ calls[2].result # "ok") =>
        /\ status = "FAILED"
        /\ calls[1].applied \cap cluster = {}
        /\ \A i \in 1..Len(calls) :
              calls[i].op = "create_new_acls" => ACLs(calls[i].arg) \cap calls[1].applied = {}

C3_Witness ==
    /\ UpdateDone
    /\ Len(calls) = 2
    /\ calls[1].result = "ok" /\ calls[1].applied # {}
    /\ calls[2].result # "ok" /\ calls[2].arg # {}
    /\ status = "FAILED"

C6_NoOpNeverCalls ==
    (InUpdate /\ AfterDiff /\ acls = <<{}, {}>>) => calls = <<>>

(* C6, amended: a no-op Update invokes delete_acls and then                *)
(* create_new_acls once each, both with an empty list, and no step of the  *)
(* invocation changes the ACLs of the cluster.                             *)
C6_NoOpCallsWithEmptyLists ==
    /\ [](UpdateDone /\ acls = <<{}, {}>> =>
            /\ Ops = <<"delete_acls", "create_new_acls">>
            /\ \A i \in 1..Len(calls) : calls[i].arg = {} /\ calls[i].applied = {})
    /\ [][(InUpdate /\ AfterDiff /\ acls = <<{}, {}>>) => cluster' = cluster]_vars

C6_Witness ==
    /\ UpdateDone
    /\ acls = <<{}, {}>>
    /\ declared # {}
    /\ Len(calls) = 2
    /\ status = "SUCCESS"

(* C7: a secret-resolution failure in define_cluster_info aborts before    *)
(* any cluster contact: neither create_new_acls nor delete_acls is called  *)
(* in that invocation (Create, Update or Delete).                          *)
C7_SecretFailureAborts ==
    SecretFailed => calls = <<>>

(* C8 as claimed: in Update, when the delete phase fails with a connection *)
(* error the create phase is not attempted and nothing is applied.         *)
C8_ConnectionErrorAborts ==
    (InUpdate /\ Len(calls) >= 1 /\ calls[1].result = "connection") =>
        /\ Len(calls) = 1
        /\ \A i \in 1..Len(calls) : calls[i].applied = {}

(* C8, amended: in Update, when the delete phase fails with a connection   *)
(* error nothing is deleted, the create phase is still attempted exactly   *)
(* once over the records to create, and the result is SUCCESS if the       *)
(* create phase succeeds and FAILED if it fails.                           *)
C8_ConnectionErrorInDeleteMovesOn ==
    (UpdateDone /\ Len(calls) >= 1 /\ calls[1].result = "connection") =>
        /\ calls[1].applied = {}
        /\ Ops = <<"delete_acls", "create_new_acls">>
        /\ calls[2].arg = acls[1]
        /\ status = IF calls[2].result = "ok" THEN "SUCCESS" ELSE "FAILED"

C8_Witness ==
    /\ UpdateDone
    /\ Len(calls) = 2
    /\ calls[1].result = "connection" /\ calls[1].arg # {}
    /\ calls[2].applied # {}

C10_FailureIsFinal ==
    (pc = "done" /\ SecretFailed) => status = "FAILED"

====
